---- MODULE Spec2Model ----
(***************************************************************************)
(* ORGAN trainer (moses/organ/trainer.py): PolicyGradientLoss, the three   *)
(* collate functions, and the control flow of ORGANTrainer (generator      *)
(* pretraining, discriminator pretraining, adversarial loop, fit).         *)
(*                                                                         *)
(* Real numbers (losses, rewards, running metrics) are exact rationals     *)
(* [num, den]; log_softmax is computed in fixed point, 1/1000 units.       *)
(* Model parameters are abstracted to a version number that every          *)
(* optimizer.step() advances.                                              *)
(***************************************************************************)
EXTENDS Integers, Sequences, FiniteSets, TLC

(* ------------------------------ bounds --------------------------------- *)
MaxEpochs == 1
MaxIters == 2
MaxUpdates == 2
MaxBatch == 2
MaxData == 3
MaxSteps == 4
MaxRows == 2
MaxLen == 3
MaxWidth == 3

(* --------------------------- exact rationals --------------------------- *)
Abs(x) == IF x < 0 THEN 0 - x ELSE x

RECURSIVE Gcd(_, _)
Gcd(a, b) == IF b = 0 THEN a ELSE Gcd(b, a % b)

Rat(n, d) ==
    LET g == Gcd(Abs(n), Abs(d))
        s == IF d < 0 THEN 0 - 1 ELSE 1
    IN  IF g = 0 THEN [num |-> 0, den |-> 0]
        ELSE [num |-> s * (n \div g), den |-> s * (d \div g)]

RatInt(n) == [num |-> n, den |-> 1]
RatAdd(a, b) == Rat(a.num * b.den + b.num * a.den, a.den * b.den)
RatSub(a, b) == Rat(a.num * b.den - b.num * a.den, a.den * b.den)
RatMul(a, b) == Rat(a.num * b.num, a.den * b.den)
RatDiv(a, b) == Rat(a.num * b.den, a.den * b.num)

(* ------------------------------ state ---------------------------------- *)
VARIABLES
    entry,          \* the ORGANTrainer method the caller invoked
    config,         \* self.config
    args,           \* train_data, val_data, optimizer of the call
    lossVals,       \* raw loss/reward values the external model can yield
    pc,             \* position in the code
    queue,          \* calls of fit still to be made
    error,          \* exception that ended the run, "none" otherwise
    genMode,        \* model.generator.training
    discMode,       \* model.discriminator.training
    genParams,      \* version of model.generator.parameters()
    discParams,     \* version of model.discriminator.parameters()
    epoch,          \* loop variable of the pretraining epoch loops
    val,            \* the pass in progress is a validation pass
    optimizer,      \* the pass in progress was given an optimizer
    nbatches,       \* number of batches tqdm_data yields in this pass
    i,              \* enumerate index of the pass in progress
    postfix,        \* postfix['loss'] of the pass in progress
    pgIter,         \* i of the outer loop of _train_policy_gradient
    gUpd,           \* index of the generator sub-update
    dUpd,           \* index of the discriminator sub-update
    dEpoch,         \* index of the inner discriminator epoch
    pair,           \* index of the (sampled, real) pair of the zip
    sampled,        \* len(sampled_batches)
    outcome,        \* generator_loss and mean reward of the current rollout
    pgPostfix,      \* postfix of _train_policy_gradient: <<>> is a missing key
    calls,          \* history: phases entered, in order
    passes,         \* history: passes started in the current phase
    lossSum,        \* history: sum of the per-batch losses of this pass
    pretrained,     \* history: parameter versions when the adversarial loop began
    rollouts,       \* history: number of model.rollout calls
    samples,        \* history: number of model.sample_tensor calls of the loop
    raws,           \* history: raw metric values seen in outer iterations 0 and 1
    grads,          \* .grad of the parameters of each sub-model (one component)
    rolled,         \* sequences, rewards, lengths of the current rollout, by row
    ops,            \* history: operations of the update in progress, in order
    tensors,        \* the list a collate function is called with (sorted in place)
    given,          \* history: that list as it was given
    collated,       \* what the collate function returned
    outputs,        \* PolicyGradientLoss.forward: scores [row][position][token]
    targets,        \* target token [row][position]
    rewards,        \* reward [row][position]
    lengths,        \* valid length [row]
    pgLoss,         \* the loss forward returned
    lastOp,         \* what was last done to the inputs of forward
    factor          \* the constant the rewards were last scaled by

vars == <<entry, config, args, lossVals, pc, queue, error, genMode, discMode,
          genParams, discParams, epoch, val, optimizer, nbatches, i, postfix,
          pgIter, gUpd, dUpd, dEpoch, pair, sampled, outcome, pgPostfix,
          calls, passes, lossSum, pretrained, rollouts, samples, raws,
          grads, rolled, ops,
          tensors, given, collated,
          outputs, targets, rewards, lengths, pgLoss, lastOp, factor>>

cfgVars == <<entry, config, args, lossVals>>
collateVars == <<tensors, given, collated>>
lossVars == <<outputs, targets, rewards, lengths, pgLoss, lastOp, factor>>
fnVars == <<collateVars, lossVars>>
trainerVars == <<pc, queue, error, genMode, discMode, genParams, discParams,
                 epoch, val, optimizer, nbatches, i, postfix, pgIter, gUpd,
                 dUpd, dEpoch, pair, sampled, outcome, pgPostfix, calls, passes,
                 lossSum, pretrained, rollouts, samples, raws, grads, rolled,
                 ops>>
passVars == <<val, optimizer, nbatches, i, postfix, lossSum>>
pgVars == <<pgIter, gUpd, dUpd, dEpoch, pair, sampled, outcome, pgPostfix,
            pretrained, rollouts, samples, raws>>
updVars == <<grads, rolled, ops>>

(* ------------------------------ data ----------------------------------- *)
\* val_data=None is <<>>; a dataset of n records is <<n>>
NoData == <<>>
IsNone(d) == d = NoData
Records(d) == d[1]

\* len(DataLoader(dataset, batch_size=n_batch)), drop_last=False
LoaderLen(d) == (Records(d) + config.n_batch - 1) \div config.n_batch

\* rows of the k-th batch (0-based): the last batch holds the remainder
BatchRows(d, k) ==
    IF k < LoaderLen(d) - 1 THEN config.n_batch
    ELSE Records(d) - (LoaderLen(d) - 1) * config.n_batch

Modes == {"train", "eval"}
Entries == {"fit", "_pretrain_generator_epoch", "_pretrain_discriminator",
            "_train_policy_gradient"}

\* Configurations per entry point: only the options the called code reads vary.
\* Under fit each loop of the adversarial phase runs at most once; the direct
\* call of _train_policy_gradient explores the longer loops.
ConfigOf(e) ==
    LET E == 0..MaxEpochs
        U == 0..MaxUpdates
        B == 1..MaxBatch
        Z == {0}
        O == {0, 1}
        C(ge, de, pg, gu, du, dep) ==
            [generator_pretrain_epochs : ge, discriminator_pretrain_epochs : de,
             pg_iters : pg, generator_updates : gu, discriminator_updates : du,
             discriminator_epochs : dep, n_batch : B]
    IN  CASE e = "fit" -> C(E, E, O, O, O, O)
          [] e = "_pretrain_generator_epoch" -> C(Z, Z, Z, Z, Z, Z)
          [] e = "_pretrain_discriminator" -> C(Z, E, Z, Z, Z, Z)
          [] e = "_train_policy_gradient" -> C(Z, Z, 0..MaxIters, U, U, U)

Datasets == {<<n>> : n \in 1..MaxData}

\* raw per-batch loss values the external model yields in the model's runs
LossVals == {1, 2}

\* n_batches = (len(train_loader) + n_batch - 1) // n_batch
NBatches == (LoaderLen(args.train_data) + config.n_batch - 1) \div config.n_batch

Min(a, b) == IF a < b THEN a ELSE b

\* zip(sampled_batches, train_loader) stops at the shorter of the two
Pairs(nsampled) == Min(nsampled, LoaderLen(args.train_data))

\* the runs explored: at most MaxSteps optimizer steps of each sub-model in
\* the adversarial loop
WithinBudget ==
    /\ config.pg_iters * config.generator_updates <= MaxSteps
    /\ config.pg_iters * config.discriminator_updates
         * config.discriminator_epochs * Pairs(NBatches) <= MaxSteps

Metrics == {"generator_loss", "reward", "discriminator_loss"}
NoMetrics == [m \in Metrics |-> <<>>]
NoRaws == [m \in Metrics |-> <<{}, {}>>]
NoBatch == [sequences |-> <<>>, rewards |-> <<>>, lengths |-> <<>>, given |-> <<>>]

ArgsOf(e) ==
    [train_data : Datasets,
     \* fit never reads its validation set (the loader is not built): one size
     val_data : CASE e = "fit" -> {NoData, <<1>>}
                  [] e = "_pretrain_discriminator" -> {NoData} \cup Datasets
                  [] OTHER -> {NoData},
     optimizer : IF e = "_pretrain_generator_epoch" THEN BOOLEAN ELSE {TRUE}]

\* no collate function and no loss has been called
NoCollate ==
    /\ tensors = <<>>
    /\ given = <<>>
    /\ collated = [kind |-> "none"]

NoLoss ==
    /\ outputs = <<>>
    /\ targets = <<>>
    /\ rewards = <<>>
    /\ lengths = <<>>
    /\ pgLoss = RatInt(0)
    /\ lastOp = "none"
    /\ factor = 1

\* the trainer before a call, its model freshly constructed or handed over
TrainerInit ==
    /\ pc = "call"
    /\ queue = <<>>
    /\ error = "none"
    /\ genMode \in Modes
    /\ discMode \in Modes
    /\ genParams = 0
    /\ discParams = 0
    /\ epoch = 0
    /\ val = FALSE
    /\ optimizer = FALSE
    /\ nbatches = 0
    /\ i = 0
    /\ postfix = RatInt(0)
    /\ calls = <<>>
    /\ passes = <<>>
    /\ lossSum = 0
    /\ pgIter = 0
    /\ gUpd = 0
    /\ dUpd = 0
    /\ dEpoch = 0
    /\ pair = 0
    /\ sampled = 0
    /\ outcome = [generator_loss |-> 0, reward |-> 0]
    /\ pgPostfix = NoMetrics
    /\ pretrained = [generator |-> 0, discriminator |-> 0]
    /\ rollouts = 0
    /\ samples = 0
    /\ raws = NoRaws
    /\ grads = [generator |-> 0, discriminator |-> 0]
    /\ rolled = NoBatch
    /\ ops = <<>>

Init ==
    /\ entry \in Entries
    /\ config \in ConfigOf(entry)
    /\ args \in ArgsOf(entry)
    \* a run of fit sees one loss value throughout, a direct call sees them all
    /\ lossVals = IF entry = "fit" THEN {1} ELSE LossVals
    /\ WithinBudget
    /\ TrainerInit
    /\ NoCollate
    /\ NoLoss

(* --------------------------- call and return --------------------------- *)
\* the callee returns: fit goes on to its next call, a direct call is over
Return ==
    IF queue = <<>>
    THEN pc' = "done" /\ queue' = queue
    ELSE pc' = Head(queue) /\ queue' = Tail(queue)

\* fit: the three phases, in this order
FitCalls == <<"_pretrain_generator", "_pretrain_discriminator",
              "_train_policy_gradient">>

Fit ==
    /\ pc = "call" /\ entry = "fit"
    /\ pc' = Head(FitCalls)
    /\ queue' = Tail(FitCalls)
    /\ UNCHANGED <<fnVars, cfgVars, updVars, pgVars, error, genMode, discMode, genParams, discParams,
                   epoch, passVars, calls, passes>>

(* ------------------------ pretraining passes --------------------------- *)
\* mutant: the new loss is averaged with the previous display value
RunningMeanOfTwo(old, idx, loss) ==
    RatDiv(RatAdd(old, RatInt(loss)), RatInt(2))

\* postfix['loss'] = (postfix['loss'] * i + loss.item()) / (i + 1)
RunningMean(old, idx, loss) ==
    RatDiv(RatAdd(RatMul(old, RatInt(idx)), RatInt(loss)), RatInt(idx + 1))

\* mutant: the step is taken whether or not an optimizer was given
OptimizerStepAlways(opt, params) == params + 1

\* if optimizer is not None: zero_grad(); backward(); step()
OptimizerStep(opt, params) == IF opt THEN params + 1 ELSE params

\* mutant: the sub-model being pretrained is always put in training mode
PassModeTrain(opt) == "train"

\* gradient component backward() computes from a loss of the model's runs:
\* one value within the clipping range, one beyond it
Gradient(loss) == IF loss = 1 THEN 3 ELSE 0 - 7

\* optimizer.zero_grad()
ZeroGrad(g) == 0

\* loss.backward(): the gradient is added to .grad
Backward(g, loss) == g + Gradient(loss)

\* zero_grad(); backward(); step() of an update without clipping
StepOps == <<"zero_grad", "backward", "step">>

\* mode of the sub-model being pretrained: eval without optimizer, else train
PassMode(opt) == IF opt THEN "train" ELSE "eval"

\* head of _pretrain_generator_epoch: modes, postfix = {'loss': 0}
BeginGeneratorPass(data, opt, isVal) ==
    /\ discMode' = "eval"
    /\ genMode' = PassMode(opt)
    /\ postfix' = RatInt(0)
    /\ i' = 0
    /\ lossSum' = 0
    /\ nbatches' = LoaderLen(data)
    /\ optimizer' = opt
    /\ val' = isVal
    /\ passes' = Append(passes, IF isVal THEN "val" ELSE "train")
    /\ pc' = "g_batch"

\* head of _pretrain_discriminator_epoch
BeginDiscriminatorPass(data, opt, isVal) ==
    /\ genMode' = "eval"
    /\ discMode' = PassMode(opt)
    /\ postfix' = RatInt(0)
    /\ i' = 0
    /\ lossSum' = 0
    /\ nbatches' = LoaderLen(data)
    /\ optimizer' = opt
    /\ val' = isVal
    /\ passes' = Append(passes, IF isVal THEN "val" ELSE "train")
    /\ pc' = "d_batch"

\* a direct call of _pretrain_generator_epoch(model, tqdm_data, criterion, optimizer)
PretrainGeneratorEpoch ==
    /\ pc = "call" /\ entry = "_pretrain_generator_epoch"
    /\ BeginGeneratorPass(args.train_data, args.optimizer, ~args.optimizer)
    /\ calls' = Append(calls, "_pretrain_generator")
    /\ UNCHANGED <<fnVars, cfgVars, updVars, pgVars, queue, error, genParams, discParams, epoch>>

\* a direct call of _pretrain_discriminator or _train_policy_gradient
DirectCall ==
    /\ pc = "call"
    /\ entry \in {"_pretrain_discriminator", "_train_policy_gradient"}
    /\ pc' = entry
    /\ UNCHANGED <<fnVars, cfgVars, updVars, pgVars, queue, error, genMode, discMode, genParams,
                   discParams, epoch, passVars, calls, passes>>

\* _pretrain_generator up to its epoch loop: the validation DataLoader is built
\* with a keyword DataLoader does not take, which raises TypeError
PretrainGenerator ==
    /\ pc = "_pretrain_generator"
    /\ calls' = Append(calls, "_pretrain_generator")
    /\ passes' = <<>>
    /\ epoch' = 0
    /\ IF IsNone(args.val_data)
       THEN pc' = "g_epoch" /\ error' = error
       ELSE pc' = "raised" /\ error' = "TypeError"
    /\ UNCHANGED <<fnVars, cfgVars, updVars, pgVars, queue, genMode, discMode, genParams, discParams,
                   passVars>>

\* for epoch in range(generator_pretrain_epochs): the training pass starts
GeneratorEpoch ==
    /\ pc = "g_epoch"
    /\ IF epoch < config.generator_pretrain_epochs
       THEN /\ BeginGeneratorPass(args.train_data, TRUE, FALSE)
            /\ UNCHANGED queue
       ELSE /\ Return
            /\ UNCHANGED <<genMode, discMode, passVars, passes>>
    /\ UNCHANGED <<fnVars, cfgVars, updVars, pgVars, error, genParams, discParams, epoch, calls>>

\* one batch of _pretrain_generator_epoch
GeneratorBatch ==
    /\ pc = "g_batch" /\ i < nbatches
    /\ \E loss \in lossVals :
        /\ genParams' = OptimizerStep(optimizer, genParams)
        /\ grads' = IF optimizer
                    THEN [grads EXCEPT !.generator = Backward(ZeroGrad(@), loss)]
                    ELSE grads
        /\ postfix' = RunningMean(postfix, i, loss)
        /\ lossSum' = lossSum + loss
    /\ ops' = IF optimizer THEN StepOps ELSE <<>>
    /\ i' = i + 1
    /\ UNCHANGED <<fnVars, cfgVars, rolled, pgVars, pc, queue, error, genMode, discMode, discParams,
                   epoch, val, optimizer, nbatches, calls, passes>>

\* the pass is over: validation pass if configured, else the next epoch
GeneratorPassEnd ==
    /\ pc = "g_batch" /\ i = nbatches
    /\ IF entry = "_pretrain_generator_epoch"
       THEN /\ Return
            /\ UNCHANGED <<genMode, discMode, passVars, passes, epoch>>
       ELSE IF ~val /\ ~IsNone(args.val_data)
       THEN /\ BeginGeneratorPass(args.val_data, FALSE, TRUE)
            /\ UNCHANGED <<queue, epoch>>
       ELSE /\ pc' = "g_epoch"
            /\ epoch' = epoch + 1
            /\ UNCHANGED <<queue, genMode, discMode, passVars, passes>>
    /\ UNCHANGED <<fnVars, cfgVars, updVars, pgVars, error, genParams, discParams, calls>>

\* _pretrain_discriminator up to its epoch loop
PretrainDiscriminator ==
    /\ pc = "_pretrain_discriminator"
    /\ calls' = Append(calls, "_pretrain_discriminator")
    /\ passes' = <<>>
    /\ epoch' = 0
    /\ pc' = "d_epoch"
    /\ UNCHANGED <<fnVars, cfgVars, updVars, pgVars, queue, error, genMode, discMode, genParams,
                   discParams, passVars>>

DiscriminatorEpoch ==
    /\ pc = "d_epoch"
    /\ IF epoch < config.discriminator_pretrain_epochs
       THEN /\ BeginDiscriminatorPass(args.train_data, TRUE, FALSE)
            /\ UNCHANGED queue
       ELSE /\ Return
            /\ UNCHANGED <<genMode, discMode, passVars, passes>>
    /\ UNCHANGED <<fnVars, cfgVars, updVars, pgVars, error, genParams, discParams, epoch, calls>>

\* one batch of _pretrain_discriminator_epoch: fake half, real half, step
DiscriminatorBatch ==
    /\ pc = "d_batch" /\ i < nbatches
    /\ \E loss \in lossVals :
        /\ discParams' = OptimizerStep(optimizer, discParams)
        /\ grads' = IF optimizer
                    THEN [grads EXCEPT !.discriminator = Backward(ZeroGrad(@), loss)]
                    ELSE grads
        /\ postfix' = RunningMean(postfix, i, loss)
        /\ lossSum' = lossSum + loss
    /\ ops' = IF optimizer THEN StepOps ELSE <<>>
    /\ i' = i + 1
    /\ UNCHANGED <<fnVars, cfgVars, rolled, pgVars, pc, queue, error, genMode, discMode, genParams,
                   epoch, val, optimizer, nbatches, calls, passes>>

DiscriminatorPassEnd ==
    /\ pc = "d_batch" /\ i = nbatches
    /\ IF ~val /\ ~IsNone(args.val_data)
       THEN /\ BeginDiscriminatorPass(args.val_data, FALSE, TRUE)
            /\ UNCHANGED epoch
       ELSE /\ pc' = "d_epoch"
            /\ epoch' = epoch + 1
            /\ UNCHANGED <<genMode, discMode, passVars, passes>>
    /\ UNCHANGED <<fnVars, cfgVars, updVars, pgVars, queue, error, genParams, discParams, calls>>

(* --------------------------- adversarial loop -------------------------- *)
\* smooth = 0.1
smooth == Rat(1, 10)

\* postfix[m] * (1 - smooth) + value * smooth
Blend(old, value) ==
    RatAdd(RatMul(old, RatSub(RatInt(1), smooth)), RatMul(RatInt(value), smooth))

\* mutant: the metric is initialised in the second outer iteration
FirstIterationOffByOne == pgIter = 1

\* if i == 0
FirstIteration == pgIter = 0

\* if i == 0: postfix[m] = value, else: blend; reading a missing key raises
MetricUpdate(pf, m, value) ==
    IF FirstIteration THEN [pf EXCEPT ![m] = <<RatInt(value)>>]
    ELSE [pf EXCEPT ![m] = <<Blend(pf[m][1], value)>>]

MetricRaises(pf, m) == ~FirstIteration /\ pf[m] = <<>>

\* history: the raw value joins those of its outer iteration (0 and 1 only)
Seen(r, m, value) ==
    IF pgIter < 2
    THEN [r EXCEPT ![m][pgIter + 1] = r[m][pgIter + 1] \cup {value}]
    ELSE r

\* mutant: one outer iteration too many
PgIterContinuesOffByOne == pgIter <= config.pg_iters

\* for i in pg_iters
PgIterContinues == pgIter < config.pg_iters

\* _train_policy_gradient up to its outer loop: postfix = {}
TrainPolicyGradient ==
    /\ pc = "_train_policy_gradient"
    /\ calls' = Append(calls, "_train_policy_gradient")
    /\ pgPostfix' = NoMetrics
    /\ pgIter' = 0
    /\ pretrained' = [generator |-> genParams, discriminator |-> discParams]
    /\ pc' = "pg_iter"
    /\ UNCHANGED <<fnVars, cfgVars, updVars, queue, error, genMode, discMode, genParams,
                   discParams, epoch, passVars, passes, gUpd, dUpd, dEpoch,
                   pair, sampled, outcome, rollouts, samples, raws>>

\* for i in pg_iters: the next outer iteration, or the end of the loop
PgIteration ==
    /\ pc = "pg_iter"
    /\ IF PgIterContinues
       THEN pc' = "pg_gen" /\ gUpd' = 0 /\ queue' = queue
       ELSE Return /\ gUpd' = gUpd
    /\ UNCHANGED <<fnVars, cfgVars, updVars, error, genMode, discMode, genParams, discParams,
                   epoch, passVars, calls, passes, pgIter, dUpd, dEpoch, pair,
                   sampled, outcome, pgPostfix, pretrained, rollouts, samples,
                   raws>>

\* for _ in range(generator_updates)
GeneratorUpdates ==
    /\ pc = "pg_gen"
    /\ IF gUpd < config.generator_updates
       THEN pc' = "rollout" /\ dUpd' = dUpd
       ELSE pc' = "pg_disc" /\ dUpd' = 0
    /\ UNCHANGED <<fnVars, cfgVars, updVars, queue, error, genMode, discMode, genParams,
                   discParams, epoch, passVars, calls, passes, pgIter, gUpd,
                   dEpoch, pair, sampled, outcome, pgPostfix, pretrained,
                   rollouts, samples, raws>>

\* outcomes of a rollout: its policy-gradient loss and its mean reward
RolloutOutcomes ==
    {[generator_loss |-> l, reward |-> 3 - l] : l \in lossVals}

\* mutant: the model is left in the mode it was in
ModelEvalSkipped == UNCHANGED <<genMode, discMode>>

\* model.eval(): both sub-models leave training mode
ModelEval == genMode' = "eval" /\ discMode' = "eval"

\* model.train(): both sub-models enter training mode
ModelTrain == genMode' = "train" /\ discMode' = "train"

\* lengths of the two rows of a rollout, in the model's runs: the rollout of
\* loss 1 has equal lengths, the rollout of loss 2 needs its rows exchanged
RolloutLengths == <<<<3, 3>>, <<2, 3>>>>

\* what model.rollout returns: row r of each tensor belongs to sample r
RolloutBatch(o) ==
    [sequences |-> <<1, 2>>, rewards |-> <<1, 2>>,
     lengths |-> RolloutLengths[o.generator_loss],
     given |-> RolloutLengths[o.generator_loss]]

\* model.eval(); model.rollout(...)
Rollout ==
    /\ pc = "rollout"
    /\ ModelEval
    /\ rollouts' = rollouts + 1
    /\ outcome' \in RolloutOutcomes
    /\ rolled' = RolloutBatch(outcome')
    /\ ops' = <<"rollout">>
    /\ pc' = "pg_loss"
    /\ UNCHANGED <<fnVars, cfgVars, grads, queue, error, genParams, discParams, epoch,
                   passVars, calls, passes, pgIter, gUpd, dUpd, dEpoch, pair,
                   sampled, pgPostfix, pretrained, samples, raws>>

\* torch.sort(lengths, descending=True): the index tensors it may return
\* (the order of equal lengths is not specified)
SortIndices(l) ==
    {p \in [1..Len(l) -> 1..Len(l)] :
        /\ \A a, b \in 1..Len(l) : p[a] = p[b] => a = b
        /\ \A k \in 1..(Len(l) - 1) : l[p[k]] >= l[p[k + 1]]}

\* t[indices, ...]
Take(t, indices) == [k \in 1..Len(indices) |-> t[indices[k]]]

\* model.train(); sort by length; generator_forward; generator_criterion
GeneratorLoss ==
    /\ pc = "pg_loss"
    /\ ModelTrain
    /\ \E indices \in SortIndices(rolled.lengths) :
        rolled' = [rolled EXCEPT !.lengths = Take(@, indices),
                                 !.sequences = Take(@, indices),
                                 !.rewards = Take(@, indices)]
    /\ ops' = ops \o <<"sort", "forward", "loss">>
    /\ pc' = "pg_zero_grad"
    /\ UNCHANGED <<fnVars, cfgVars, grads, queue, error, genParams, discParams, epoch,
                   passVars, calls, passes, pgVars>>

\* generator_optimizer.zero_grad()
GeneratorZeroGrad ==
    /\ pc = "pg_zero_grad"
    /\ grads' = [grads EXCEPT !.generator = ZeroGrad(@)]
    /\ ops' = Append(ops, "zero_grad")
    /\ pc' = "pg_backward"
    /\ UNCHANGED <<fnVars, cfgVars, rolled, queue, error, genMode, discMode, genParams,
                   discParams, epoch, passVars, calls, passes, pgVars>>

\* generator_loss.backward()
GeneratorBackward ==
    /\ pc = "pg_backward"
    /\ grads' = [grads EXCEPT !.generator = Backward(@, outcome.generator_loss)]
    /\ ops' = Append(ops, "backward")
    /\ pc' = "pg_clip"
    /\ UNCHANGED <<fnVars, cfgVars, rolled, queue, error, genMode, discMode, genParams,
                   discParams, epoch, passVars, calls, passes, pgVars>>

\* the bound of clip_grad_value_(model.generator.parameters(), 5)
clip_value == 5

\* mutant: the gradient is left as backward() computed it
ClipGradValueSkipped(g) == g

\* clip_grad_value_: every component is clamped to [-clip_value, clip_value]
ClipGradValue(g) ==
    IF g > clip_value THEN clip_value
    ELSE IF g < 0 - clip_value THEN 0 - clip_value
    ELSE g

\* nn.utils.clip_grad_value_(model.generator.parameters(), 5)
GeneratorClip ==
    /\ pc = "pg_clip"
    /\ grads' = [grads EXCEPT !.generator = ClipGradValue(@)]
    /\ ops' = Append(ops, "clip")
    /\ pc' = "pg_step"
    /\ UNCHANGED <<fnVars, cfgVars, rolled, queue, error, genMode, discMode, genParams,
                   discParams, epoch, passVars, calls, passes, pgVars>>

\* generator_optimizer.step()
GeneratorStep ==
    /\ pc = "pg_step"
    /\ genParams' = OptimizerStep(TRUE, genParams)
    /\ ops' = Append(ops, "step")
    /\ pc' = "pg_metric"
    /\ UNCHANGED <<fnVars, cfgVars, grads, rolled, queue, error, genMode, discMode,
                   discParams, epoch, passVars, calls, passes, pgVars>>

\* the two running metrics of the generator phase
GeneratorMetric ==
    /\ pc = "pg_metric"
    /\ IF MetricRaises(pgPostfix, "generator_loss")
       THEN /\ pc' = "raised" /\ error' = "KeyError"
            /\ UNCHANGED <<pgPostfix, raws, gUpd>>
       ELSE /\ pgPostfix' = MetricUpdate(
                   MetricUpdate(pgPostfix, "generator_loss", outcome.generator_loss),
                   "reward", outcome.reward)
            /\ raws' = Seen(Seen(raws, "generator_loss", outcome.generator_loss),
                            "reward", outcome.reward)
            /\ gUpd' = gUpd + 1
            /\ pc' = "pg_gen"
            /\ error' = error
    \* the rollout batch is not read after this point
    /\ rolled' = NoBatch
    /\ UNCHANGED <<fnVars, cfgVars, grads, ops, queue, genMode, discMode, genParams,
                   discParams, epoch, passVars, calls, passes, pgIter, dUpd, dEpoch,
                   pair, sampled, outcome, pretrained, rollouts, samples>>

\* for _ in range(discriminator_updates): generator.eval(), pre-sampling;
\* after the last one, pg_iters.set_postfix(postfix) ends the outer iteration
DiscriminatorUpdates ==
    /\ pc = "pg_disc"
    /\ IF dUpd < config.discriminator_updates
       THEN /\ genMode' = "eval"
            /\ sampled' = NBatches
            /\ samples' = samples + NBatches
            /\ dEpoch' = 0
            /\ pc' = "pg_depoch"
            /\ pgIter' = pgIter
       ELSE /\ pgIter' = pgIter + 1
            /\ pc' = "pg_iter"
            /\ UNCHANGED <<genMode, sampled, samples, dEpoch>>
    /\ UNCHANGED <<fnVars, cfgVars, updVars, queue, error, discMode, genParams, discParams,
                   epoch, passVars, calls, passes, gUpd, dUpd, pair, outcome,
                   pgPostfix, pretrained, rollouts, raws>>

\* for _ in range(discriminator_epochs): random.shuffle(sampled_batches)
DiscriminatorEpochs ==
    /\ pc = "pg_depoch"
    /\ IF dEpoch < config.discriminator_epochs
       THEN pc' = "pg_pair" /\ pair' = 0 /\ dUpd' = dUpd
       ELSE pc' = "pg_disc" /\ pair' = pair /\ dUpd' = dUpd + 1
    /\ UNCHANGED <<fnVars, cfgVars, updVars, queue, error, genMode, discMode, genParams,
                   discParams, epoch, passVars, calls, passes, pgIter, gUpd,
                   dEpoch, sampled, outcome, pgPostfix, pretrained, rollouts,
                   samples, raws>>

\* rows of the real-label target tensor: torch.ones(n_batch, 1)
RealTargetRows(k) == config.n_batch

\* BCEWithLogitsLoss raises ValueError when target and input sizes differ
CriterionRaises(k) == RealTargetRows(k) # BatchRows(args.train_data, k)

\* one (sampled, real) pair: both halves of the loss, step, running metric
DiscriminatorPair ==
    /\ pc = "pg_pair"
    /\ IF pair >= Pairs(sampled)
       THEN /\ pc' = "pg_depoch"
            /\ dEpoch' = dEpoch + 1
            /\ UNCHANGED <<error, discParams, grads, ops, pgPostfix, raws, pair>>
       ELSE IF CriterionRaises(pair)
       THEN /\ pc' = "raised" /\ error' = "ValueError"
            /\ UNCHANGED <<discParams, grads, ops, pgPostfix, raws, pair, dEpoch>>
       ELSE \E loss \in lossVals :
            /\ discParams' = OptimizerStep(TRUE, discParams)
            /\ grads' = [grads EXCEPT !.discriminator = Backward(ZeroGrad(@), loss)]
            /\ ops' = StepOps
            /\ IF MetricRaises(pgPostfix, "discriminator_loss")
               THEN /\ pc' = "raised" /\ error' = "KeyError"
                    /\ UNCHANGED <<pgPostfix, raws, pair>>
               ELSE /\ pgPostfix' = MetricUpdate(pgPostfix, "discriminator_loss", loss)
                    /\ raws' = Seen(raws, "discriminator_loss", loss)
                    /\ pair' = pair + 1
                    /\ pc' = pc
                    /\ error' = error
            /\ dEpoch' = dEpoch
    /\ UNCHANGED <<fnVars, cfgVars, rolled, queue, genMode, discMode, genParams, epoch,
                   passVars, calls, passes, pgIter, gUpd, dUpd, sampled,
                   outcome, pretrained, rollouts, samples>>

(* ------------------------- collate functions --------------------------- *)
\* model.vocabulary.pad
pad == 0

\* token indices of the sequences string2tensor yields (never the pad index)
Tokens == {1, 2}

SeqsOfLen(n) == [1..n -> Tokens]
Sequences == UNION {SeqsOfLen(n) : n \in 1..MaxLen}
Batches == UNION {[1..n -> Sequences] : n \in 1..MaxRows}

Max(a, b) == IF a > b THEN a ELSE b

RECURSIVE MaxLength(_)
MaxLength(ts) ==
    IF ts = <<>> THEN 0 ELSE Max(Len(Head(ts)), MaxLength(Tail(ts)))

\* mutant: the list is sorted by ascending length (reverse=True forgotten)
RECURSIVE SortByLenAscending(_)
SortByLenAscending(ts) ==
    IF ts = <<>> THEN <<>>
    ELSE LET n == Len(ts)
             x == ts[n]
             t == SortByLenAscending(SubSeq(ts, 1, n - 1))
             k == Cardinality({j \in 1..Len(t) : Len(t[j]) <= Len(x)})
         IN  SubSeq(t, 1, k) \o <<x>> \o SubSeq(t, k + 1, Len(t))

\* list.sort(key=lambda x: len(x), reverse=True): stable, longest first
RECURSIVE SortByLenDescending(_)
SortByLenDescending(ts) ==
    IF ts = <<>> THEN <<>>
    ELSE LET n == Len(ts)
             x == ts[n]
             t == SortByLenDescending(SubSeq(ts, 1, n - 1))
             k == Cardinality({j \in 1..Len(t) : Len(t[j]) >= Len(x)})
         IN  SubSeq(t, 1, k) \o <<x>> \o SubSeq(t, k + 1, Len(t))

\* pad_sequence(ts, batch_first=True, padding_value=value)
PadSequence(ts, value) ==
    LET w == MaxLength(ts)
    IN  [k \in 1..Len(ts) |-> ts[k] \o [j \in 1..(w - Len(ts[k])) |-> value]]

\* t[:-1] and t[1:]
AllButLast(t) == SubSeq(t, 1, Len(t) - 1)
AllButFirst(t) == SubSeq(t, 2, Len(t))

\* collate of _pretrain_generator, applied to the sorted list
GeneratorCollate(ts) ==
    [kind |-> "generator",
     prevs |-> PadSequence([k \in 1..Len(ts) |-> AllButLast(ts[k])], pad),
     nexts |-> PadSequence([k \in 1..Len(ts) |-> AllButFirst(ts[k])], pad),
     lens |-> [k \in 1..Len(ts) |-> Len(ts[k]) - 1]]

\* collate of _pretrain_discriminator and of _train_policy_gradient
InputsCollate(ts, kind) ==
    [kind |-> kind, inputs |-> PadSequence(ts, pad)]

CollateGenerator ==
    /\ collated.kind = "none"
    /\ tensors' = SortByLenDescending(tensors)
    /\ collated' = GeneratorCollate(tensors')
    /\ UNCHANGED <<given, lossVars, cfgVars, trainerVars>>

CollateDiscriminator ==
    /\ collated.kind = "none"
    /\ tensors' = SortByLenDescending(tensors)
    /\ collated' = InputsCollate(tensors', "discriminator")
    /\ UNCHANGED <<given, lossVars, cfgVars, trainerVars>>

CollatePolicyGradient ==
    /\ collated.kind = "none"
    /\ tensors' = SortByLenDescending(tensors)
    /\ collated' = InputsCollate(tensors', "policy_gradient")
    /\ UNCHANGED <<given, lossVars, cfgVars, trainerVars>>

\* the trainer at rest while a function of the module is exercised on its own
TrainerIdle ==
    /\ entry = "none"
    /\ config = [generator_pretrain_epochs |-> 0, discriminator_pretrain_epochs |-> 0,
                 pg_iters |-> 0, generator_updates |-> 0, discriminator_updates |-> 0,
                 discriminator_epochs |-> 0, n_batch |-> 1]
    /\ args = [train_data |-> NoData, val_data |-> NoData, optimizer |-> FALSE]
    /\ lossVals = {}
    /\ TrainerInit
    /\ genMode = "train"
    /\ discMode = "train"

InitCollate ==
    /\ TrainerIdle
    /\ NoLoss
    /\ given \in Batches
    /\ tensors = given
    /\ collated = [kind |-> "none"]

NextCollate ==
    \/ CollateGenerator
    \/ CollateDiscriminator
    \/ CollatePolicyGradient

SpecCollate == InitCollate /\ [][NextCollate]_vars

Rows(m) == 1..Len(m)
Rectangular(m) == \A a, b \in Rows(m) : Len(m[a]) = Len(m[b])
Truncate(row, n) == SubSeq(row, 1, n)
PaddedBeyond(row, n) == \A j \in (n + 1)..Len(row) : row[j] = pad
Orderings(n) ==
    {f \in [1..n -> 1..n] : \A a, b \in 1..n : f[a] = f[b] => a = b}
Descending(f) ==
    \A k \in 1..(Len(given) - 1) : Len(given[f[k]]) >= Len(given[f[k + 1]])

\* C5: each collate function returns rectangular tensors, one row per given
\* sequence, rows ordered by descending original length; truncating row k to
\* its recorded length gives back the k-th longest sequence (for the generator
\* collate: that sequence without its last token in prevs, without its first
\* token in nexts, recorded length len-1), and every position past the
\* recorded length holds the pad index.
C5_CollateReconstructsInput ==
    /\ collated.kind \in {"discriminator", "policy_gradient"} =>
          /\ Len(collated.inputs) = Len(given)
          /\ Rectangular(collated.inputs)
          /\ \E f \in Orderings(Len(given)) :
                /\ Descending(f)
                /\ \A k \in Rows(given) :
                      /\ Truncate(collated.inputs[k], Len(given[f[k]])) = given[f[k]]
                      /\ PaddedBeyond(collated.inputs[k], Len(given[f[k]]))
    /\ collated.kind = "generator" =>
          /\ Len(collated.prevs) = Len(given)
          /\ Len(collated.nexts) = Len(given)
          /\ Len(collated.lens) = Len(given)
          /\ Rectangular(collated.prevs \o collated.nexts)
          /\ \E f \in Orderings(Len(given)) :
                /\ Descending(f)
                /\ \A k \in Rows(given) :
                      /\ collated.lens[k] = Len(given[f[k]]) - 1
                      /\ Truncate(collated.prevs[k], collated.lens[k])
                            = AllButLast(given[f[k]])
                      /\ Truncate(collated.nexts[k], collated.lens[k])
                            = AllButFirst(given[f[k]])
                      /\ PaddedBeyond(collated.prevs[k], collated.lens[k])
                      /\ PaddedBeyond(collated.nexts[k], collated.lens[k])

\* a batch given shortest first, with a one-token sequence, through the
\* generator collate
C5_Witness ==
    /\ collated.kind = "generator"
    /\ Len(given) = 2
    /\ Len(given[1]) = 1
    /\ Len(given[2]) = 3
    /\ collated.lens = <<2, 0>>

(* ------------------------- PolicyGradientLoss -------------------------- *)
\* the vocabulary axis of outputs has two entries
Vocab == {1, 2}

\* log(1 + exp(-d)) in 1/1000 units, for a score difference d >= 0
LogOnePlusExpNeg(d) ==
    CASE d = 0 -> 693
      [] d = 1 -> 313
      [] d = 2 -> 127
      [] d = 3 -> 49
      [] OTHER -> 18

\* F.log_softmax over the vocabulary axis of one position, in 1/1000 units
LogSoftmax(scores) ==
    LET hi == Max(scores[1], scores[2])
        lse == 1000 * hi + LogOnePlusExpNeg(Abs(scores[1] - scores[2]))
    IN  [v \in Vocab |-> 1000 * scores[v] - lse]

\* mutant: the gathered log-probabilities are not weighted by the rewards
ItemsUnweighted(out, tgt, rew) ==
    [r \in 1..Len(out) |->
        [j \in 1..Len(out[r]) |-> LogSoftmax(out[r][j])[tgt[r][j]]]]

\* torch.gather(log_probs, 2, targets.unsqueeze(2)) * rewards.unsqueeze(2)
Items(out, tgt, rew) ==
    [r \in 1..Len(out) |->
        [j \in 1..Len(out[r]) |-> LogSoftmax(out[r][j])[tgt[r][j]] * rew[r][j]]]

RECURSIVE SumSeq(_)
SumSeq(t) == IF t = <<>> THEN 0 ELSE Head(t) + SumSeq(Tail(t))

\* mutant: the slice takes one position too many
SliceOneMore(t, l) == SubSeq(t, 1, Min(l + 1, Len(t)))

\* t[:l]
Slice(t, l) == SubSeq(t, 1, Min(l, Len(t)))

\* mutant: the sum is divided by the batch size
DenominatorBatchSize(lens) == Len(lens)

\* lengths.sum().float()
Denominator(lens) == SumSeq(lens)

\* -sum([t[:l].sum() for t, l in zip(items, lengths)]) / lengths.sum().float()
\* (0/0 is NaN, kept as num = 0, den = 0)
PolicyGradientLoss(out, tgt, rew, lens) ==
    LET items == Items(out, tgt, rew)
        sums == [r \in 1..Min(Len(items), Len(lens)) |-> SumSeq(Slice(items[r], lens[r]))]
    IN  Rat(0 - SumSeq(sums), Denominator(lens))

\* one position of the input tensors
Cell(sc, t, rw) == [scores |-> sc, target |-> t, reward |-> rw]
ValidCells == {Cell(<<0, 1>>, 1, 1), Cell(<<2, 0>>, 2, 3)}
PadCells == {Cell(<<1, 1>>, 1, 2), Cell(<<0, 2>>, 2, 0 - 1)}

\* rows of W positions: one cell throughout, or two cells alternating
RowsOfWidth(W) ==
    {[j \in 1..W |-> IF j % 2 = 1 THEN c ELSE d] : c \in ValidCells, d \in ValidCells}
Factors == {0 - 1, 0, 3}

InitLoss ==
    /\ TrainerIdle
    /\ NoCollate
    /\ \E R \in 1..MaxRows : \E W \in 1..MaxWidth :
        /\ \E cells \in [1..R -> RowsOfWidth(W)] :
            /\ outputs = [r \in 1..R |-> [j \in 1..W |-> cells[r][j].scores]]
            /\ targets = [r \in 1..R |-> [j \in 1..W |-> cells[r][j].target]]
            /\ rewards = [r \in 1..R |-> [j \in 1..W |-> cells[r][j].reward]]
        /\ lengths \in [1..R -> 0..W]
    /\ pgLoss = RatInt(0)
    /\ lastOp = "none"
    /\ factor = 1

\* criterion(outputs, targets, rewards, lengths)
Forward ==
    /\ lastOp = "none"
    /\ pgLoss' = PolicyGradientLoss(outputs, targets, rewards, lengths)
    /\ lastOp' = "forward"
    /\ UNCHANGED <<outputs, targets, rewards, lengths, factor, collateVars,
                   cfgVars, trainerVars>>

\* forward again after one padding position got other scores, target, reward
ForwardPaddingChanged ==
    /\ lastOp = "forward"
    /\ \E r \in 1..Len(lengths) : \E j \in (lengths[r] + 1)..Len(outputs[r]) :
       \E c \in PadCells :
        /\ outputs' = [outputs EXCEPT ![r][j] = c.scores]
        /\ targets' = [targets EXCEPT ![r][j] = c.target]
        /\ rewards' = [rewards EXCEPT ![r][j] = c.reward]
    /\ pgLoss' = PolicyGradientLoss(outputs', targets', rewards', lengths)
    /\ lastOp' = "padding"
    /\ UNCHANGED <<lengths, factor, collateVars, cfgVars, trainerVars>>

\* forward again after one more column of padding positions was appended
ForwardPaddingAppended ==
    /\ lastOp = "forward"
    /\ \E col \in [1..Len(lengths) -> PadCells] :
        /\ outputs' = [r \in 1..Len(outputs) |-> Append(outputs[r], col[r].scores)]
        /\ targets' = [r \in 1..Len(targets) |-> Append(targets[r], col[r].target)]
        /\ rewards' = [r \in 1..Len(rewards) |-> Append(rewards[r], col[r].reward)]
    /\ pgLoss' = PolicyGradientLoss(outputs', targets', rewards', lengths)
    /\ lastOp' = "appended"
    /\ UNCHANGED <<lengths, factor, collateVars, cfgVars, trainerVars>>

\* forward again with every reward multiplied by a constant
ForwardRewardsScaled ==
    /\ lastOp = "forward"
    /\ factor' \in Factors
    /\ rewards' = [r \in 1..Len(rewards) |->
                     [j \in 1..Len(rewards[r]) |-> factor' * rewards[r][j]]]
    /\ pgLoss' = PolicyGradientLoss(outputs, targets, rewards', lengths)
    /\ lastOp' = "scaled"
    /\ UNCHANGED <<outputs, targets, lengths, collateVars, cfgVars, trainerVars>>

NextLoss ==
    \/ Forward
    \/ ForwardPaddingChanged
    \/ ForwardPaddingAppended
    \/ ForwardRewardsScaled

SpecLoss == InitLoss /\ [][NextLoss]_vars

\* the valid positions: row r, position j (1-based) with j <= lengths[r]
ValidPositions == {<<r, j>> \in (1..Len(lengths)) \X (1..MaxWidth + 1) : j <= lengths[r]}

WeightedLogProb(p) ==
    LogSoftmax(outputs[p[1]][p[2]])[targets[p[1]][p[2]]] * rewards[p[1]][p[2]]

RECURSIVE SumWeighted(_)
SumWeighted(S) ==
    IF S = {} THEN 0
    ELSE LET x == CHOOSE y \in S : TRUE
         IN  WeightedLogProb(x) + SumWeighted(S \ {x})

\* C6: forward returns minus the sum, over the valid positions only, of the
\* target's log-probability times the reward, divided by the number of valid
\* positions (the sum of all lengths); a row of length 0 adds to neither.
C6_LossOverValidPositions ==
    lastOp # "none" =>
        LET total == SumWeighted(ValidPositions)
            count == Cardinality(ValidPositions)
        IN  /\ pgLoss.num * count = (0 - total) * pgLoss.den
            /\ count > 0 => pgLoss.den > 0
            /\ count = 0 => pgLoss = [num |-> 0, den |-> 0]

\* lengths [3, 1]: three terms for the first row, one for the second
C6_Witness ==
    /\ lastOp = "forward"
    /\ lengths = <<3, 1>>
    /\ Len(outputs[2]) = 3
    /\ pgLoss.den > 0
    /\ pgLoss.num > 0

\* C7: with the lengths fixed, other scores, target or reward at a padding
\* position, or a further column of padding positions, leave the loss as is.
C7_LossIgnoresPadding ==
    [][lastOp' \in {"padding", "appended"} => pgLoss' = pgLoss]_vars

C7_Witness ==
    /\ lastOp = "padding"
    /\ lengths = <<2, 0>>
    /\ rewards[2][1] < 0
    /\ pgLoss.num # 0

\* C8: the same outputs, targets and lengths with every reward multiplied by a
\* constant c give c times the loss.
C8_LossLinearInReward ==
    [][lastOp' = "scaled" => pgLoss' = RatMul(RatInt(factor'), pgLoss)]_vars

C8_Witness ==
    /\ lastOp = "scaled"
    /\ factor = 3
    /\ pgLoss.num > 0
    /\ \E r \in 1..Len(lengths) : lengths[r] = 0
    /\ \E r \in 1..Len(lengths) : lengths[r] = Len(outputs[r])

(* ------------------------------ claims --------------------------------- *)
Last(s) == s[Len(s)]
IsPrefix(s, t) == Len(s) <= Len(t) /\ \A k \in 1..Len(s) : s[k] = t[k]

InPhase(p) == calls # <<>> /\ Last(calls) = p

PcsOf(p) ==
    CASE p = "_pretrain_generator" -> {"g_epoch", "g_batch"}
      [] p = "_pretrain_discriminator" -> {"d_epoch", "d_batch"}
      [] p = "_train_policy_gradient" ->
            {"pg_iter", "pg_gen", "rollout", "pg_loss", "pg_zero_grad", "pg_backward",
             "pg_clip", "pg_step", "pg_metric",
             "pg_disc", "pg_depoch", "pg_pair"}

\* C1: in every run of fit the three phases run exactly once each, in the
\* order generator pretraining, discriminator pretraining, adversarial loop,
\* and every step is a step of the phase entered last (no interleaving).
C1_FitRunsPhasesOnceInOrder ==
    entry = "fit" =>
        /\ IsPrefix(calls, FitCalls)
        /\ \A p \in {FitCalls[k] : k \in 1..3} : pc \in PcsOf(p) => InPhase(p)
        /\ pc \in {"done", "raised"} => calls = FitCalls

\* C2: with pg_iters = 0 the adversarial loop makes no optimizer step, no
\* rollout and no sample_tensor call, and the parameters of both sub-models
\* stay as they were when pretraining ended.
C2_ZeroItersLeaveModelAlone ==
    (config.pg_iters = 0 /\ InPhase("_train_policy_gradient")) =>
        /\ genParams = pretrained.generator
        /\ discParams = pretrained.discriminator
        /\ rollouts = 0
        /\ samples = 0

C2_Witness ==
    /\ entry = "fit" /\ pc = "done" /\ InPhase("_train_policy_gradient")
    /\ config.pg_iters = 0
    /\ config.generator_updates > 0
    /\ config.discriminator_updates > 0
    /\ config.discriminator_epochs > 0
    /\ genParams > 0 /\ discParams > 0

\* passes of a generator pretraining of E epochs
ExpectedPasses ==
    IF IsNone(args.val_data)
    THEN [k \in 1..config.generator_pretrain_epochs |-> "train"]
    ELSE [k \in 1..(2 * config.generator_pretrain_epochs) |->
             IF k % 2 = 1 THEN "train" ELSE "val"]

\* C3: generator pretraining runs to completion as E epochs, each a training
\* pass immediately followed by a validation pass when validation data is
\* configured, and as E training passes and no validation pass otherwise.
C3_GeneratorPretrainingEpochs ==
    (entry = "fit" /\ InPhase("_pretrain_generator")) =>
        /\ error = "none"
        /\ IsPrefix(passes, ExpectedPasses)
        /\ pc = "_pretrain_discriminator" => passes = ExpectedPasses

InPretraining ==
    pc \in {"_pretrain_generator", "g_epoch", "g_batch",
            "_pretrain_discriminator", "d_epoch", "d_batch"}

\* C4: during pretraining the generator's parameters change only in a batch of
\* a generator pass that was given an optimizer, the discriminator's only in a
\* batch of a discriminator pass that was given one, neither changes the other
\* sub-model, and a pass without optimizer changes no parameter at all.
C4_PretrainingUpdatesOwnSubmodel ==
    [][InPretraining =>
         /\ genParams' # genParams =>
               pc = "g_batch" /\ optimizer /\ discParams' = discParams
         /\ discParams' # discParams =>
               pc = "d_batch" /\ optimizer /\ genParams' = genParams
         /\ ~optimizer => genParams' = genParams /\ discParams' = discParams
      ]_vars

C4_Witness ==
    /\ pc = "d_batch" /\ val /\ ~optimizer
    /\ i > 0 /\ i = nbatches
    /\ discParams > 0

\* C9: for each running metric of the adversarial loop, after the first outer
\* iteration the metric is that iteration's raw value v1, and after the second
\* outer iteration with raw value v2 it is 0.9*v1 + 0.1*v2 (an iteration whose
\* updates all yield the same raw value has that value as its raw value).
C9_SmoothingPerOuterIteration ==
    \A m \in Metrics : \A v1, v2 \in LossVals :
        /\ (pc = "pg_iter" /\ pgIter = 1 /\ raws[m][1] = {v1}) =>
               pgPostfix[m] = <<RatInt(v1)>>
        /\ (pc = "pg_iter" /\ pgIter = 2 /\ raws[m][1] = {v1} /\ raws[m][2] = {v2}) =>
               pgPostfix[m] = <<Rat(9 * v1 + v2, 10)>>

\* C10: in every pretraining pass the displayed loss is 0 before the first
\* batch and after batch n the arithmetic mean of the n losses of the pass;
\* when every batch has the same loss L it is L after every batch.
C10_DisplayedLossIsMean ==
    pc \in {"g_batch", "d_batch"} =>
        /\ i = 0 => postfix = RatInt(0)
        /\ i > 0 => postfix.den > 0 /\ postfix.num * i = lossSum * postfix.den
        /\ \A L \in {1, 2} : (i > 0 /\ lossSum = L * i) => postfix = RatInt(L)

C10_Witness ==
    /\ pc = "g_batch" /\ val /\ i = 2 /\ lossSum = 3

\* C11: in every discriminator sub-update the number of generator batches
\* pre-sampled with sample_tensor equals the number of real-data batches the
\* training loader yields, len(train_loader).
C11_SampledEqualsLoaderLen ==
    pc \in {"pg_depoch", "pg_pair"} => sampled = LoaderLen(args.train_data)

\* C12: in the adversarial loop every rollout runs with the generator and the
\* discriminator in evaluation mode, every sample_tensor call of the
\* discriminator phase runs with the generator in evaluation mode, and the
\* generator is in training mode at the forward pass and at the optimizer
\* step that follow each rollout.
C12_SamplingInEvalMode ==
    [][/\ rollouts' # rollouts => genMode' = "eval" /\ discMode' = "eval"
       /\ samples' # samples => genMode' = "eval"
       /\ pc = "pg_loss" => genMode' = "train"
       /\ pc \in {"pg_zero_grad", "pg_backward", "pg_clip", "pg_step"} =>
             genMode = "train" /\ genMode' = "train"
      ]_vars

C12_Witness ==
    /\ pc = "pg_loss" /\ rollouts >= 2 /\ samples > 0
    /\ genMode = "eval" /\ discMode = "eval"

\* C13: during every pretraining pass the sub-model that is not being
\* pretrained is in evaluation mode for the whole pass; the sub-model being
\* pretrained is in training mode exactly in the passes that receive an
\* optimizer, and in evaluation mode in validation passes.
C13_PretrainingPassModes ==
    /\ pc = "g_batch" =>
          /\ discMode = "eval"
          /\ genMode = "train" <=> optimizer
          /\ val => genMode = "eval"
    /\ pc = "d_batch" =>
          /\ genMode = "eval"
          /\ discMode = "train" <=> optimizer
          /\ val => discMode = "eval"

C13_Witness ==
    /\ pc = "d_batch" /\ val /\ i = nbatches /\ nbatches > 1
    /\ epoch = 0 /\ discParams > 1
    /\ genMode = "eval" /\ discMode = "eval"

\* the operations of one generator sub-update, in the order of the claim
GeneratorOps ==
    <<"rollout", "sort", "forward", "loss", "zero_grad", "backward", "clip", "step">>

NoClip(o) == \A k \in 1..Len(o) : o[k] # "clip"

\* the rollout batch is sorted by descending length and the rows of
\* sequences, rewards and lengths were moved by one and the same permutation
SortedTogether(b) ==
    /\ \A k \in 1..(Len(b.lengths) - 1) : b.lengths[k] >= b.lengths[k + 1]
    /\ b.sequences = b.rewards
    /\ \A k \in 1..Len(b.lengths) : b.lengths[k] = b.given[b.sequences[k]]
    /\ {b.sequences[k] : k \in 1..Len(b.sequences)} = 1..Len(b.given)

\* C14: each generator sub-update runs rollout, sort by descending length
\* (one permutation for sequences, rewards and lengths), forward, loss,
\* zero_grad, backward, clip, optimizer step, in this order, so the gradient
\* the generator optimizer applies in this phase lies in [-5, 5]; no optimizer
\* step of a pretraining phase or of the discriminator phase is preceded by
\* clipping.
C14_ClipBeforeGeneratorStep ==
    [][/\ genParams' # genParams =>
             \/ /\ pc = "pg_step"
                /\ ops' = GeneratorOps
                /\ SortedTogether(rolled)
                /\ grads' = grads
                /\ grads.generator >= 0 - 5 /\ grads.generator <= 5
             \/ /\ pc = "g_batch"
                /\ ops' = StepOps /\ NoClip(ops')
       /\ discParams' # discParams =>
             /\ pc \in {"d_batch", "pg_pair"}
             /\ ops' = StepOps /\ NoClip(ops')
      ]_vars

C14_Witness ==
    /\ pc = "pg_metric" /\ ops = GeneratorOps
    /\ grads.generator = 0 - 5
    /\ grads.discriminator = 0 - 7
    /\ rolled.given = <<2, 3>> /\ rolled.lengths = <<3, 2>>
    /\ rolled.sequences = <<2, 1>>

\* optimizer steps the adversarial loop has made so far
GeneratorSteps == genParams - pretrained.generator
DiscriminatorSteps == discParams - pretrained.discriminator

\* discriminator steps of one full outer iteration: S pre-sampled batches
\* zipped with R real-data batches, per inner epoch, per sub-update
StepsPerIteration ==
    config.discriminator_updates * config.discriminator_epochs
        * Min(NBatches, LoaderLen(args.train_data))

\* C15: the adversarial loop terminates, having made exactly
\* pg_iters * generator_updates generator optimizer steps and exactly
\* pg_iters * discriminator_updates * discriminator_epochs * min(S, R)
\* discriminator optimizer steps; within an outer iteration every generator
\* sub-update precedes every discriminator sub-update.
C15_LoopTerminatesWithExactCounts ==
    InPhase("_train_policy_gradient") =>
        /\ pc \in {"done", "raised"} =>
              /\ pc = "done"
              /\ GeneratorSteps = config.pg_iters * config.generator_updates
              /\ DiscriminatorSteps = config.pg_iters * StepsPerIteration
        /\ pc \in {"pg_gen", "rollout", "pg_loss", "pg_zero_grad", "pg_backward",
                    "pg_clip", "pg_step", "pg_metric"} =>
              DiscriminatorSteps = pgIter * StepsPerIteration
        /\ pc \in {"pg_disc", "pg_depoch", "pg_pair"} =>
              GeneratorSteps = (pgIter + 1) * config.generator_updates

\* C16: every discriminator optimizer step, in discriminator pretraining and
\* in the discriminator phase of the adversarial loop, is taken while the
\* discriminator is in training mode.
C16_DiscriminatorStepsInTrainMode ==
    [][discParams' # discParams => discMode = "train" /\ discMode' = "train"]_vars

\* C17: in the discriminator phase of the adversarial loop the real-label
\* target tensor of every processed (sampled, real) pair has exactly as many
\* rows as the real-data batch, so the loss is computed without a size
\* mismatch, also for a dataset of fewer than n_batch records.
C17_RealTargetsMatchBatch ==
    /\ error # "ValueError"
    /\ (pc = "pg_pair" /\ pair < Pairs(sampled)) =>
           RealTargetRows(pair) = BatchRows(args.train_data, pair)

\* C18: a running metric changes during an outer iteration only in an update
\* of its own phase (after that phase's optimizer step of this iteration), and
\* a metric is never blended in an outer iteration i > 0 before it has been
\* initialised in outer iteration 0: no blend reads a missing key.
C18_MetricsFollowOwnPhase ==
    [][/\ error' # "KeyError"
       /\ \A m \in {"generator_loss", "reward"} :
             pgPostfix'[m] # pgPostfix[m] =>
                /\ pc = "pg_metric" /\ gUpd' >= 1
                /\ GeneratorSteps > pgIter * config.generator_updates
       /\ pgPostfix'["discriminator_loss"] # pgPostfix["discriminator_loss"] =>
                /\ pc = "pg_pair"
                /\ DiscriminatorSteps' > pgIter * StepsPerIteration
       /\ \A m \in Metrics :
             (pgIter > 0 /\ pgPostfix'[m] # pgPostfix[m]) =>
                pgPostfix[m] # <<>> /\ raws[m][1] # {}
      ]_vars

C18_Witness ==
    /\ pc = "pg_pair" /\ pgIter = 1 /\ pair = 2
    /\ config.generator_updates = 0
    /\ pgPostfix["generator_loss"] = <<>>
    /\ pgPostfix["discriminator_loss"] # <<>>
    /\ pgPostfix["discriminator_loss"][1].den = 100

(* --------------------------- specification ---------------------------- *)
Next ==
    \/ Fit
    \/ DirectCall
    \/ PretrainGeneratorEpoch
    \/ PretrainGenerator
    \/ GeneratorEpoch
    \/ GeneratorBatch
    \/ GeneratorPassEnd
    \/ PretrainDiscriminator
    \/ DiscriminatorEpoch
    \/ DiscriminatorBatch
    \/ DiscriminatorPassEnd
    \/ TrainPolicyGradient
    \/ PgIteration
    \/ GeneratorUpdates
    \/ Rollout
    \/ GeneratorLoss
    \/ GeneratorZeroGrad
    \/ GeneratorBackward
    \/ GeneratorClip
    \/ GeneratorStep
    \/ GeneratorMetric
    \/ DiscriminatorUpdates
    \/ DiscriminatorEpochs
    \/ DiscriminatorPair

Spec == Init /\ [][Next]_vars
====
